---------------------------- MODULE Spec2Model ----------------------------
(***************************************************************************)
(* ITKBoneEnhancement: the Krcah eigenvalue-to-scalar filter               *)
(* (include/itkKrcahEigenToScalarImageFilter.h), the command-line driver   *)
(* and its progress observer MyCommand.                                    *)
(*                                                                         *)
(* Three specifications share the module:                                  *)
(*   Spec         a client driving one KrcahEigenToScalarImageFilter       *)
(*   SpecDriver   one execution of the driver's main()                     *)
(*   SpecCommand  one MyCommand observer receiving Execute calls           *)
(***************************************************************************)
EXTENDS Integers, Sequences, FiniteSets

VARIABLES
    est,        \* m_ParameterEstimationFilter: mask, background, parameter set, alpha, beta, gamma
    fun,        \* m_UnaryFunctorFilter: enhance type, alpha, beta, gamma
    input,      \* the eigenvalue volume connected to the filter
    output,     \* the scalar volume written by the functor pass
    used,       \* (alpha, beta, gamma) the functor read at each voxel of the current pass
    pc,         \* position inside GenerateData / main
    runs,       \* number of GenerateData runs started
    estDone,    \* the estimator has finished in the current run
    previous,   \* (alpha, beta, gamma) the functor held when the current run began
    lastCall,   \* the configuration method called last
    polarity,   \* the polarity the client asked for last
    order,      \* the eigenvalue order the upstream stage was asked for
    drv,        \* the driver's locals and observable effects
    cmd         \* the MyCommand observer

vars ==
    <<est, fun, input, output, used, pc, runs, estDone, previous, lastCall,
      polarity, order, drv, cmd>>

-----------------------------------------------------------------------------
(* Bounds of the model *)

NumVoxels == 2
MaxRuns == 2
MaxEig == 1
MaxParameter == 1

-----------------------------------------------------------------------------
(* Values *)

Abs(x) == IF x < 0 THEN -x ELSE x

\* Superclass::OrderByMagnitude
OrderByMagnitude == "OrderByMagnitude"

\* KrcahImplementationType
UseImplementationParameters == "UseImplementationParameters"
UseJournalParameters == "UseJournalParameters"
KrcahImplementationType == {UseImplementationParameters, UseJournalParameters}

\* the functor's enhance type: +1 keeps the eigenvalues, -1 negates them
EnhanceBright == 1
EnhanceDark == -1
EnhanceTypes == {EnhanceBright, EnhanceDark}

\* the value of the calibration constants before any estimation
DefaultParameter == 1

\* the voxel of the end-to-end scenarios
ScenarioVoxel == <<-1, -10, -10>>

\* voxels the volumes of the model are built from
SampleVoxels == {ScenarioVoxel, <<1, 2, 2>>, <<0, 0, 0>>}

\* eigenvalue triples ordered by ascending magnitude
EigenTriples ==
    {t \in (-MaxEig..MaxEig) \X (-MaxEig..MaxEig) \X (-MaxEig..MaxEig) :
        Abs(t[1]) <= Abs(t[2]) /\ Abs(t[2]) <= Abs(t[3])} \cup SampleVoxels

Voxels == 1..NumVoxels

\* uniform volumes and one volume mixing two kinds of voxel
Volumes ==
    {[v \in Voxels |-> t] : t \in SampleVoxels}
        \cup {[v \in Voxels |-> IF v = 1 THEN <<1, 2, 2>> ELSE ScenarioVoxel]}

MaskLabels == {0, 1}
NoMask == <<>>
MaskImages ==
    {NoMask, [v \in Voxels |-> IF v = 1 THEN 1 ELSE 0], [v \in Voxels |-> 0]}

NoImage == <<>>

-----------------------------------------------------------------------------
(* The Parameter Estimator: one pass over the non-background voxels *)

ImplementationCoefficient == 1
JournalCoefficient == 2

Foreground(mask, back) == {v \in Voxels : mask = NoMask \/ mask[v] # back}

\* largest magnitude of one eigenvalue channel over the scanned voxels; 0 when
\* every voxel is background
ChannelMax(vol, scanned, c) ==
    IF scanned = {} THEN 0
    ELSE CHOOSE m \in {Abs(vol[v][c]) : v \in scanned} :
            \A v \in scanned : m >= Abs(vol[v][c])

Coefficient(parameterSet) ==
    IF parameterSet = UseImplementationParameters
    THEN ImplementationCoefficient
    ELSE JournalCoefficient

EstimateParameters(vol, mask, back, parameterSet) ==
    LET scanned == Foreground(mask, back)
        k == Coefficient(parameterSet)
    IN  [alpha |-> k * ChannelMax(vol, scanned, 1),
         beta  |-> k * ChannelMax(vol, scanned, 2),
         gamma |-> k * ChannelMax(vol, scanned, 3)]

-----------------------------------------------------------------------------
(* The Scalar Functor *)

\* the neutral output
NeutralValue == [sheet |-> FALSE, lambda |-> <<0, 0, 0>>, constants |-> <<0, 0, 0>>]

\* the eigenvalues after the polarity is applied
ApplyPolarity(e, enhanceType) ==
    <<enhanceType * e[1], enhanceType * e[2], enhanceType * e[3]>>

\* the two eigenvalues of largest magnitude have the sign the polarity requires
SignGate(e, enhanceType) ==
    LET s == ApplyPolarity(e, enhanceType)
    IN  s[2] > 0 /\ s[3] > 0

\* the product of the three ratio terms scaled by the largest magnitude, kept
\* as the expression over the signed eigenvalues and the three constants
Sheetness(s, alpha, beta, gamma) ==
    [sheet |-> TRUE, lambda |-> s, constants |-> <<alpha, beta, gamma>>]

KrcahFunctor(e, alpha, beta, gamma, enhanceType) ==
    IF ~SignGate(e, enhanceType)
    THEN NeutralValue
    ELSE Sheetness(ApplyPolarity(e, enhanceType), alpha, beta, gamma)

-----------------------------------------------------------------------------
(* KrcahEigenToScalarImageFilter: accessors *)

\* the order of the base class left in place
GetEigenValueOrderByValue == "OrderByValue"

GetEigenValueOrder == OrderByMagnitude

GetMaskImage == est.maskImage

GetBackgroundValue == est.backgroundValue

GetParameterSet == est.parameterSet

\* GetAlpha reading the neighbouring accessor of the functor filter
GetAlphaReadsBeta == fun.beta

GetAlpha == fun.alpha

GetBeta == fun.beta

GetGamma == fun.gamma

GetEnhanceType == fun.enhanceType

-----------------------------------------------------------------------------
(* State that the filter specification leaves alone *)

DriverIdle ==
    [argc |-> 0, enhanceBrightObjects |-> 0, parameterSetToImplement |-> 0,
     numberOfSigma |-> 0, i |-> 0, argvRead |-> {}, usage |-> FALSE,
     printedPolarity |-> "none", printedParameterSet |-> "none",
     inputRead |-> FALSE, preprocessed |-> FALSE, preprocessedWritten |-> FALSE,
     measured |-> FALSE, measureWritten |-> FALSE,
     requestedOrder |-> "none", usedEnhanceType |-> 0,
     usedParameterSet |-> "none", exit |-> "running"]

\* progress values are held in units of 1/ProgressScale percent
ProgressScale == 2

\* line 39: float m_PastProgress = -1
CommandConstructed ==
    [m_PastProgress |-> -1 * ProgressScale, printed |-> FALSE,
     lastPrinted |-> -1 * ProgressScale, call |-> "none", line |-> FALSE,
     endl |-> FALSE]

CommandIdle == CommandConstructed

-----------------------------------------------------------------------------
(* KrcahEigenToScalarImageFilter: construction *)

FilterConstructed ==
    /\ est \in [maskImage : {NoMask}, backgroundValue : {0},
                parameterSet : KrcahImplementationType,
                alpha : {DefaultParameter}, beta : {DefaultParameter},
                gamma : {DefaultParameter}]
    /\ fun \in [enhanceType : EnhanceTypes, alpha : {DefaultParameter},
                beta : {DefaultParameter}, gamma : {DefaultParameter}]
    /\ input = NoImage
    /\ output = NoImage
    /\ used = <<>>
    /\ runs = 0
    /\ estDone = FALSE
    /\ previous = <<fun.alpha, fun.beta, fun.gamma>>
    /\ lastCall = "none"
    /\ polarity = "none"
    /\ order = "none"

Init ==
    /\ FilterConstructed
    /\ pc = "idle"
    /\ drv = DriverIdle
    /\ cmd = CommandIdle

-----------------------------------------------------------------------------
(* KrcahEigenToScalarImageFilter: configuration methods *)

Configure(method) ==
    /\ pc = "idle"
    /\ lastCall' = method
    /\ UNCHANGED <<output, used, pc, runs, estDone, previous, order, drv, cmd>>

SetInput(vol) ==
    /\ Configure("SetInput")
    /\ input' = vol
    /\ UNCHANGED <<est, fun, polarity>>

SetMaskImage(mask) ==
    /\ Configure("SetMaskImage")
    /\ est' = [est EXCEPT !.maskImage = mask]
    /\ UNCHANGED <<fun, input, polarity>>

SetBackgroundValue(back) ==
    /\ Configure("SetBackgroundValue")
    /\ est' = [est EXCEPT !.backgroundValue = back]
    /\ UNCHANGED <<fun, input, polarity>>

SetParameterSet(back) ==
    /\ Configure("SetParameterSet")
    /\ est' = [est EXCEPT !.parameterSet = back]
    /\ UNCHANGED <<fun, input, polarity>>

\* the strategy selected by replacing the estimator's whole configuration
SetParameterSetToImplementationResets ==
    /\ Configure("SetParameterSetToImplementation")
    /\ est' = [est EXCEPT !.parameterSet = UseImplementationParameters,
                          !.maskImage = NoMask, !.backgroundValue = 0]
    /\ UNCHANGED <<fun, input, polarity>>

SetParameterSetToImplementation ==
    /\ Configure("SetParameterSetToImplementation")
    /\ est' = [est EXCEPT !.parameterSet = UseImplementationParameters]
    /\ UNCHANGED <<fun, input, polarity>>

SetParameterSetToJournalArticle ==
    /\ Configure("SetParameterSetToJournalArticle")
    /\ est' = [est EXCEPT !.parameterSet = UseJournalParameters]
    /\ UNCHANGED <<fun, input, polarity>>

\* the bright setter forwarding to the dark setter of the functor filter
SetEnhanceBrightObjectsForwardsDark ==
    /\ Configure("SetEnhanceBrightObjects")
    /\ fun' = [fun EXCEPT !.enhanceType = EnhanceDark]
    /\ polarity' = "bright"
    /\ UNCHANGED <<est, input>>

SetEnhanceBrightObjects ==
    /\ Configure("SetEnhanceBrightObjects")
    /\ fun' = [fun EXCEPT !.enhanceType = EnhanceBright]
    /\ polarity' = "bright"
    /\ UNCHANGED <<est, input>>

SetEnhanceDarkObjects ==
    /\ Configure("SetEnhanceDarkObjects")
    /\ fun' = [fun EXCEPT !.enhanceType = EnhanceDark]
    /\ polarity' = "dark"
    /\ UNCHANGED <<est, input>>

-----------------------------------------------------------------------------
(* KrcahEigenToScalarImageFilter::GenerateData, statement by statement *)

\* the upstream stage has ordered the eigenvalues as GetEigenValueOrder asks
GenerateDataBegin ==
    /\ pc = "idle"
    /\ input # NoImage
    /\ runs < MaxRuns
    /\ pc' = "estimate"
    /\ runs' = runs + 1
    /\ estDone' = FALSE
    /\ output' = NoImage
    /\ used' = <<>>
    /\ previous' = <<fun.alpha, fun.beta, fun.gamma>>
    /\ order' = GetEigenValueOrder
    /\ UNCHANGED <<est, fun, input, lastCall, polarity, drv, cmd>>

\* m_ParameterEstimationFilter->Update()
RunParameterEstimation ==
    /\ pc = "estimate"
    /\ LET p == EstimateParameters(input, est.maskImage, est.backgroundValue,
                                   est.parameterSet)
       IN  est' = [est EXCEPT !.alpha = p.alpha, !.beta = p.beta, !.gamma = p.gamma]
    /\ estDone' = TRUE
    /\ pc' = "configure"
    /\ UNCHANGED <<fun, input, output, used, runs, previous, lastCall, polarity, order,
                   drv, cmd>>

\* the hand-over forgetting gamma
ConfigureFunctorWithoutGamma ==
    /\ pc = "configure"
    /\ fun' = [fun EXCEPT !.alpha = est.alpha, !.beta = est.beta]
    /\ pc' = "functor"
    /\ UNCHANGED <<est, input, output, used, runs, estDone, previous, lastCall, polarity,
                   order, drv, cmd>>

\* the estimated constants are handed to the functor filter
ConfigureFunctor ==
    /\ pc = "configure"
    /\ fun' = [fun EXCEPT !.alpha = est.alpha, !.beta = est.beta, !.gamma = est.gamma]
    /\ pc' = "functor"
    /\ UNCHANGED <<est, input, output, used, runs, estDone, previous, lastCall, polarity,
                   order, drv, cmd>>

\* m_UnaryFunctorFilter->Update(): one voxel
EvaluateVoxel ==
    /\ pc = "functor"
    /\ LET v == Len(output) + 1
       IN  /\ output' = Append(output, KrcahFunctor(input[v], fun.alpha, fun.beta,
                                                    fun.gamma, fun.enhanceType))
           /\ used' = Append(used, <<fun.alpha, fun.beta, fun.gamma>>)
           /\ pc' = IF v = NumVoxels THEN "idle" ELSE "functor"
    /\ UNCHANGED <<est, fun, input, runs, estDone, previous, lastCall, polarity, order,
                   drv, cmd>>

Next ==
    \/ \E vol \in Volumes : SetInput(vol)
    \/ \E mask \in MaskImages : SetMaskImage(mask)
    \/ \E back \in MaskLabels : SetBackgroundValue(back)
    \/ \E back \in KrcahImplementationType : SetParameterSet(back)
    \/ SetParameterSetToImplementation
    \/ SetParameterSetToJournalArticle
    \/ SetEnhanceBrightObjects
    \/ SetEnhanceDarkObjects
    \/ GenerateDataBegin
    \/ RunParameterEstimation
    \/ ConfigureFunctor
    \/ EvaluateVoxel

Spec == Init /\ [][Next]_vars

-----------------------------------------------------------------------------
(* Properties of the filter, checked under Spec *)

Constants(r) == <<r.alpha, r.beta, r.gamma>>

ParameterSetMethods ==
    {"SetParameterSet", "SetParameterSetToImplementation",
     "SetParameterSetToJournalArticle"}

PolarityMethods == {"SetEnhanceBrightObjects", "SetEnhanceDarkObjects"}

\* the sign the polarity requires of the two eigenvalues of largest magnitude
RequiredSign(e, p) ==
    IF p = "bright" THEN e[2] > 0 /\ e[3] > 0 ELSE e[2] < 0 /\ e[3] < 0

ParameterRange == 0..MaxParameter

\* C1: in every run of GenerateData the estimator has finished before the
\* functor is evaluated at any voxel; every voxel of the pass reads the
\* (alpha, beta, gamma) the estimator computed in that same run from the
\* current input, mask, background value and parameter set.
C1_EstimatorBeforeFunctor ==
    /\ pc = "functor" => estDone
    /\ Len(used) > 0 => estDone
    /\ \A k \in 1..Len(used) : used[k] = Constants(est)
    /\ (pc \in {"configure", "functor"}) =>
            Constants(est) = Constants(EstimateParameters(input, est.maskImage,
                                        est.backgroundValue, est.parameterSet))

\* a second run whose functor pass has read constants differing from those of
\* the first run
C1_Witness ==
    /\ runs = 2
    /\ pc = "functor"
    /\ Len(used) >= 1
    /\ used[1] # previous
    /\ previous # <<DefaultParameter, DefaultParameter, DefaultParameter>>

\* C2: once an estimation has completed and its constants have been handed
\* over, GetAlpha, GetBeta and GetGamma return the constants held by the
\* estimation filter.
C2_AccessorsReturnEstimate ==
    ((estDone \/ runs > 1) /\ pc # "configure") =>
        /\ GetAlpha = est.alpha
        /\ GetBeta = est.beta
        /\ GetGamma = est.gamma

\* after a second completed run the accessors return three distinct values
\* that are neither the defaults nor the values of the first run
C2_Witness ==
    /\ runs = 2
    /\ pc = "idle"
    /\ estDone
    /\ <<GetAlpha, GetBeta, GetGamma>> # previous
    /\ GetAlpha # DefaultParameter
    /\ GetAlpha # GetBeta
    /\ previous # <<DefaultParameter, DefaultParameter, DefaultParameter>>

\* C3: a call of a parameter-set method leaves the enhance type, the mask and
\* the background value unchanged; a call of a polarity method leaves the
\* parameter set, the mask and the background value unchanged.
C3_SettersFrame ==
    [][/\ (pc = "idle" /\ pc' = "idle" /\ lastCall' \in ParameterSetMethods) =>
            /\ GetEnhanceType' = GetEnhanceType
            /\ GetMaskImage' = GetMaskImage
            /\ GetBackgroundValue' = GetBackgroundValue
       /\ (pc = "idle" /\ pc' = "idle" /\ lastCall' \in PolarityMethods) =>
            /\ GetParameterSet' = GetParameterSet
            /\ GetMaskImage' = GetMaskImage
            /\ GetBackgroundValue' = GetBackgroundValue]_vars

\* the implementation set has just been selected on a filter with a mask, a
\* background value of 1 and the dark polarity
C3_Witness ==
    /\ lastCall = "SetParameterSetToImplementation"
    /\ GetParameterSet = UseImplementationParameters
    /\ GetMaskImage # NoMask
    /\ GetBackgroundValue = 1
    /\ polarity = "dark"
    /\ GetEnhanceType = EnhanceDark

\* C4: once SetEnhanceBrightObjects or SetEnhanceDarkObjects has set the
\* polarity, every eigenvalue triple ordered by magnitude whose two largest
\* eigenvalues lack the required sign is mapped to the neutral value for
\* every non-negative (alpha, beta, gamma); so is every such voxel of a
\* functor pass; (-1, -10, -10) is neutral under the bright polarity.
C4_SignGating ==
    /\ lastCall \in PolarityMethods =>
        \A e \in EigenTriples : \A a, b, g \in ParameterRange :
            ~RequiredSign(e, polarity) =>
                KrcahFunctor(e, a, b, g, GetEnhanceType) = NeutralValue
    /\ (polarity # "none" /\ pc = "functor") =>
        \A k \in 1..Len(output) :
            ~RequiredSign(input[k], polarity) => output[k] = NeutralValue
    /\ polarity = "bright" =>
        \A a, b, g \in ParameterRange :
            KrcahFunctor(ScenarioVoxel, a, b, g, GetEnhanceType) = NeutralValue

\* a functor pass under the bright polarity has rejected the scenario voxel
\* and accepted another voxel
C4_Witness ==
    /\ polarity = "bright"
    /\ pc = "idle"
    /\ Len(output) = NumVoxels
    /\ input[1] = <<1, 2, 2>>
    /\ input[2] = ScenarioVoxel
    /\ output[1] # NeutralValue
    /\ output[2] = NeutralValue
    /\ lastCall = "SetEnhanceBrightObjects"

\* C5: GetEigenValueOrder returns OrderByMagnitude in every reachable state,
\* and the order the upstream stage was asked for is OrderByMagnitude in every
\* run.
C5_OrderByMagnitude ==
    /\ order \in {"none", OrderByMagnitude}
    /\ runs > 0 => order = OrderByMagnitude
    /\ GetEigenValueOrder = OrderByMagnitude

\* every kind of setter has left its mark and a run has completed
C5_Witness ==
    /\ GetEigenValueOrder = OrderByMagnitude
    /\ order = OrderByMagnitude
    /\ GetMaskImage # NoMask
    /\ GetBackgroundValue = 1
    /\ lastCall \in ParameterSetMethods
    /\ polarity # "none"
    /\ runs = MaxRuns
    /\ pc = "idle"

-----------------------------------------------------------------------------
(* The command-line driver: main(argc, argv) *)

MaxArgc == 10
MaxNumberOfSigma == 3
MaxPastEnd == 2

\* line 67, i < numberOfSigma: the int numberOfSigma is converted to
\* unsigned int, so a negative value becomes 2^32 + numberOfSigma, at least
\* 2^31 and above every i of the model
LoopContinues(i, numberOfSigma) == numberOfSigma < 0 \/ i < numberOfSigma

\* line 44, the argument-count check, passing seven arguments
TooFewArgumentsBelowSeven(argc) == argc < 7

\* line 44: the argument-count check
TooFewArguments(argc) == argc < 8

FlagValues == {0, 1, 2}

InitDriver ==
    /\ FilterConstructed
    /\ pc = "main"
    /\ cmd = CommandIdle
    /\ \E argc \in 1..MaxArgc :
        \E bright \in FlagValues, impl \in FlagValues, n \in -1..MaxNumberOfSigma :
              /\ argc <= 6 => (bright = 0 /\ impl = 0 /\ n = 0)
              /\ drv = [DriverIdle EXCEPT !.argc = argc,
                                          !.enhanceBrightObjects = bright,
                                          !.parameterSetToImplement = impl,
                                          !.numberOfSigma = n]

DriverStep(from, to) ==
    /\ pc = from
    /\ pc' = to
    /\ UNCHANGED <<est, fun, input, output, used, runs, estDone, previous, lastCall,
                   polarity, order, cmd>>

\* lines 44-54
MainUsage ==
    /\ TooFewArguments(drv.argc)
    /\ DriverStep("main", "returned")
    /\ drv' = [drv EXCEPT !.usage = TRUE, !.argvRead = @ \cup {0},
                          !.exit = "EXIT_FAILURE"]

\* lines 57-66: argv[1] to argv[6] are read and the sigma array is sized
MainReadParameters ==
    /\ ~TooFewArguments(drv.argc)
    /\ DriverStep("main", "sigma")
    /\ drv' = [drv EXCEPT !.argvRead = @ \cup (1..6), !.i = 0]

\* line 66: an array of (unsigned) -1 elements cannot be allocated
MainSetSizeFails ==
    /\ ~TooFewArguments(drv.argc)
    /\ drv.numberOfSigma < 0
    /\ DriverStep("main", "terminated")
    /\ drv' = [drv EXCEPT !.argvRead = @ \cup (1..6), !.exit = "terminate"]

\* lines 67-70: one iteration reading argv[7+i] inside argv[0..argc]
MainReadSigma ==
    /\ LoopContinues(drv.i, drv.numberOfSigma)
    /\ 7 + drv.i < drv.argc
    /\ DriverStep("sigma", "sigma")
    /\ drv' = [drv EXCEPT !.argvRead = @ \cup {7 + drv.i}, !.i = @ + 1]

\* lines 67-70: one iteration reading argv[7+i] at or past argv[argc]; atof
\* of the null pointer or of whatever lies past the array yields some value
MainReadSigmaPastEnd ==
    /\ LoopContinues(drv.i, drv.numberOfSigma)
    /\ 7 + drv.i >= drv.argc
    /\ 7 + drv.i < drv.argc + MaxPastEnd
    /\ DriverStep("sigma", "sigma")
    /\ drv' = [drv EXCEPT !.argvRead = @ \cup {7 + drv.i}, !.i = @ + 1]

\* lines 67-70: the same read ending the process
MainReadSigmaCrashes ==
    /\ LoopContinues(drv.i, drv.numberOfSigma)
    /\ 7 + drv.i >= drv.argc
    /\ 7 + drv.i < drv.argc + MaxPastEnd
    /\ DriverStep("sigma", "terminated")
    /\ drv' = [drv EXCEPT !.argvRead = @ \cup {7 + drv.i}, !.exit = "crash"]

\* lines 72-88: the parameters are reported
MainReport ==
    /\ ~(LoopContinues(drv.i, drv.numberOfSigma))
    /\ DriverStep("sigma", "preprocess")
    /\ drv' = [drv EXCEPT
                 !.printedPolarity =
                     IF drv.enhanceBrightObjects = 1 THEN "bright" ELSE "dark",
                 !.printedParameterSet =
                     IF drv.parameterSetToImplement = 1
                     THEN UseImplementationParameters
                     ELSE UseJournalParameters]

\* lines 108-117: the input file is read and preprocessed
MainPreprocess ==
    /\ DriverStep("preprocess", "writePreprocessed")
    /\ drv' = [drv EXCEPT !.inputRead = TRUE, !.preprocessed = TRUE]

\* line 117: the reader throws, nothing catches
MainPreprocessThrows ==
    /\ DriverStep("preprocess", "terminated")
    /\ drv' = [drv EXCEPT !.exit = "terminate"]

\* lines 119-124
MainWritePreprocessed ==
    /\ DriverStep("writePreprocessed", "multiscale")
    /\ drv' = [drv EXCEPT !.preprocessedWritten = TRUE]

\* line 124: the writer throws
MainWritePreprocessedThrows ==
    /\ DriverStep("writePreprocessed", "terminated")
    /\ drv' = [drv EXCEPT !.exit = "terminate"]

\* lines 127-136: krcahFilter is created, handed to the multi-scale filter as
\* it was constructed, and the multi-scale filter is updated
MainMultiScale ==
    /\ DriverStep("multiscale", "writeMeasure")
    /\ drv' = [drv EXCEPT !.measured = TRUE,
                          !.requestedOrder = GetEigenValueOrder,
                          !.usedEnhanceType = GetEnhanceType,
                          !.usedParameterSet = GetParameterSet]

\* line 136: the update throws
MainMultiScaleThrows ==
    /\ DriverStep("multiscale", "terminated")
    /\ drv' = [drv EXCEPT !.exit = "terminate"]

\* lines 138-145
MainWriteMeasure ==
    /\ DriverStep("writeMeasure", "returned")
    /\ drv' = [drv EXCEPT !.measureWritten = TRUE, !.exit = "EXIT_SUCCESS"]

\* line 143: the writer throws
MainWriteMeasureThrows ==
    /\ DriverStep("writeMeasure", "terminated")
    /\ drv' = [drv EXCEPT !.exit = "terminate"]

NextDriver ==
    \/ MainUsage
    \/ MainReadParameters
    \/ MainSetSizeFails
    \/ MainReadSigma
    \/ MainReadSigmaPastEnd
    \/ MainReadSigmaCrashes
    \/ MainReport
    \/ MainPreprocess
    \/ MainPreprocessThrows
    \/ MainWritePreprocessed
    \/ MainWritePreprocessedThrows
    \/ MainMultiScale
    \/ MainMultiScaleThrows
    \/ MainWriteMeasure
    \/ MainWriteMeasureThrows

SpecDriver == InitDriver /\ [][NextDriver]_vars

-----------------------------------------------------------------------------
(* MyCommand, the progress observer *)

\* GetProgress() * 100 ranges over -BelowZero to MaxPercent percent
BelowZero == 2
MaxPercent == 101

ProgressValues == (-BelowZero * ProgressScale)..(MaxPercent * ProgressScale)

\* int(x) of a float: truncation toward zero
IntCast(x) ==
    IF x >= 0 THEN x \div ProgressScale ELSE -((-x) \div ProgressScale)

\* line 28 with >= in place of >
ShouldPrintOnEqual(progress, past) == IntCast(progress) >= IntCast(past)

\* line 28
ShouldPrint(progress, past) == IntCast(progress) > IntCast(past)

\* no filter takes part: its variables stay at one constructed state
InitCommand ==
    /\ FilterConstructed
    /\ est.parameterSet = UseImplementationParameters
    /\ fun.enhanceType = EnhanceBright
    /\ pc = "observing"
    /\ drv = DriverIdle
    /\ cmd = CommandConstructed

CommandFrame ==
    UNCHANGED <<est, fun, input, output, used, pc, runs, estDone, previous, lastCall,
                polarity, order, drv>>

\* lines 20-22: the event is not a ProgressEvent
ExecuteOtherEvent ==
    /\ cmd' = [cmd EXCEPT !.call = "other event", !.line = FALSE, !.endl = FALSE]
    /\ CommandFrame

\* lines 23-26: the caller is not a ProcessObject
ExecuteOtherCaller ==
    /\ cmd' = [cmd EXCEPT !.call = "other caller", !.line = FALSE, !.endl = FALSE]
    /\ CommandFrame

\* lines 27-36: a ProgressEvent of a ProcessObject whose progress is p
ExecuteProgress(p) ==
    /\ IF ShouldPrint(p, cmd.m_PastProgress)
       THEN cmd' = [cmd EXCEPT !.m_PastProgress = p, !.printed = TRUE,
                               !.lastPrinted = p, !.call = "progress",
                               !.line = TRUE,
                               !.endl = (p >= 99 * ProgressScale)]
       ELSE cmd' = [cmd EXCEPT !.call = "progress", !.line = FALSE,
                               !.endl = FALSE]
    /\ CommandFrame

NextCommand ==
    \/ ExecuteOtherEvent
    \/ ExecuteOtherCaller
    \/ \E p \in ProgressValues : ExecuteProgress(p)

SpecCommand == InitCommand /\ [][NextCommand]_vars

-----------------------------------------------------------------------------
(* Properties of the driver, checked under SpecDriver *)

\* C6: the polarity in effect on the Krcah filter when the multi-scale filter
\* is updated is the one the <SetEnhanceBrightObjects> argument selects:
\* bright when it is 1, dark otherwise, as the driver prints it.
C6_PolarityArgumentInEffect ==
    drv.measured =>
        /\ drv.usedEnhanceType =
              IF drv.enhanceBrightObjects = 1 THEN EnhanceBright ELSE EnhanceDark
        /\ drv.printedPolarity =
              IF drv.usedEnhanceType = EnhanceBright THEN "bright" ELSE "dark"

\* C7: the parameter set in effect on the Krcah filter when the multi-scale
\* filter is updated is the one the <UseImplementationParameters> argument
\* selects: the implementation set when it is 1, the journal-article set
\* otherwise, as the driver prints it.
C7_StrategyArgumentInEffect ==
    drv.measured =>
        /\ drv.usedParameterSet =
              IF drv.parameterSetToImplement = 1
              THEN UseImplementationParameters
              ELSE UseJournalParameters
        /\ drv.printedParameterSet = drv.usedParameterSet

\* C8: with argc < 8 main prints the usage and returns EXIT_FAILURE without
\* reading the input, running a filter or writing a file; EXIT_SUCCESS is
\* returned only after both images have been written.
C8_UsageBeforeProcessing ==
    /\ (drv.argc < 8 /\ pc # "main") =>
            /\ pc = "returned"
            /\ drv.usage
            /\ drv.exit = "EXIT_FAILURE"
    /\ drv.argc < 8 =>
            /\ ~drv.inputRead
            /\ ~drv.preprocessed
            /\ ~drv.preprocessedWritten
            /\ ~drv.measured
            /\ ~drv.measureWritten
            /\ drv.argvRead \subseteq {0}
    /\ drv.exit = "EXIT_SUCCESS" =>
            /\ drv.preprocessedWritten
            /\ drv.measureWritten

\* main has returned EXIT_FAILURE for seven arguments, program name included
C8_Witness ==
    /\ drv.argc = 7
    /\ pc = "returned"
    /\ drv.usage
    /\ drv.exit = "EXIT_FAILURE"

\* C10: every argv index read by a run that passed the argument-count check
\* is below argc.
C10_SigmaReadsInBounds ==
    ~TooFewArguments(drv.argc) => \A k \in drv.argvRead : k < drv.argc

-----------------------------------------------------------------------------
(* Properties of MyCommand, checked under SpecCommand *)

\* C9: m_PastProgress never decreases; a line is printed only when the integer
\* percentage of the progress exceeds the integer part of the last printed
\* value, so each printed value exceeds the one printed before; a call whose
\* event is not a ProgressEvent or whose caller is not a ProcessObject prints
\* nothing and leaves m_PastProgress unchanged.
C9_ProgressLinesIncrease ==
    [][/\ cmd'.m_PastProgress >= cmd.m_PastProgress
       /\ cmd'.line =>
            /\ IntCast(cmd'.lastPrinted) > IntCast(cmd.lastPrinted)
            /\ cmd'.lastPrinted > cmd.lastPrinted
            /\ cmd'.lastPrinted = cmd'.m_PastProgress
       /\ ~cmd'.line => cmd'.lastPrinted = cmd.lastPrinted
       /\ cmd'.call \in {"other event", "other caller"} =>
            /\ ~cmd'.line
            /\ cmd'.m_PastProgress = cmd.m_PastProgress]_vars

\* 99.5 percent has been printed with its end of line, after smaller values
C9_Witness ==
    /\ cmd.call = "progress"
    /\ cmd.line
    /\ cmd.endl
    /\ cmd.printed
    /\ cmd.m_PastProgress = 99 * ProgressScale + 1

=============================================================================
